---- MODULE Spec2Model ----
(***************************************************************************)
(* Reviewer resolution of auto-request-review: src/src/reviewer.js and the *)
(* collaborator wrappers of src/src/github.js.                             *)
(*                                                                         *)
(* Strings are sequences of one-character strings, so that startsWith,     *)
(* replace and includes are computed and not assumed.  A JavaScript array  *)
(* is a sequence; an object with optional keys is a function whose DOMAIN  *)
(* holds the keys that are present.                                        *)
(***************************************************************************)
EXTENDS Integers, Sequences, FiniteSets, TLC

VARIABLES
    \* should_request_review
    title, is_draft, gate_options, gate_pc, eligible,
    \* one call of a synchronous function of reviewer.js: the function, its
    \* arguments and what it returned
    call_fn, call_config, call_author, call_reviewers, call_changed_files,
    call_excludes, call_out,
    \* one run of the synchronous stages: the stage to run next, the
    \* configuration read so far, the author, the candidate set, and whether a
    \* section read so far named the author (directly or through a group)
    run_pc, run_config, run_author, run_reviewers, run_named_author,
    \* randomly_pick_reviewers
    pick_pool, pick_options, pick_pc, pick_out,
    \* live reconciliation: the candidates, author and options handed in; what
    \* the GitHub API answers for each team; the promises of the team lookups;
    \* the position of the run; the reviewer list as it stands; the answer of
    \* list_requested_reviewers; the calls made to each collaborator; and the
    \* order in which the team lookups completed
    live_reviewers, live_author, live_options, live_api, live_promises, live_pc,
    live_result, live_requested, live_calls, live_order,
    \* the memoized values of github.js: what the sources hold, the four
    \* caches, and since the last clear_cache the reads of each source, the
    \* accesses to each getter and the collaborator calls; the clear_cache calls
    source, cache, reads, accesses, cache_calls, cache_clears

gate_vars == <<title, is_draft, gate_options, gate_pc, eligible>>
call_vars == <<call_fn, call_config, call_author, call_reviewers, call_changed_files,
               call_excludes, call_out>>
run_vars == <<run_pc, run_config, run_author, run_reviewers, run_named_author>>
pick_vars == <<pick_pool, pick_options, pick_pc, pick_out>>
live_vars == <<live_reviewers, live_author, live_options, live_api, live_promises,
               live_pc, live_result, live_requested, live_calls, live_order>>
cache_vars == <<source, cache, reads, accesses, cache_calls, cache_clears>>
vars == <<gate_vars, call_vars, run_vars, pick_vars, live_vars, cache_vars>>

\* the variables a specification other than the named one leaves alone
not_gate_vars == <<call_vars, run_vars, pick_vars, live_vars, cache_vars>>
not_call_vars == <<gate_vars, run_vars, pick_vars, live_vars, cache_vars>>
not_run_vars == <<gate_vars, call_vars, pick_vars, live_vars, cache_vars>>
not_pick_vars == <<gate_vars, call_vars, run_vars, live_vars, cache_vars>>
not_cache_vars == <<gate_vars, call_vars, run_vars, pick_vars, live_vars>>
not_live_vars == <<gate_vars, call_vars, run_vars, pick_vars, cache_vars>>

----------------------------------------------------------------------------
(* Bounds *)

MaxLen == 2          \* longest reviewer list of a configuration section
MaxTitleLen == 3     \* longest title drawn over TitleAlphabet
MaxPool == 3         \* largest candidate pool handed to randomly_pick_reviewers
MaxPick == 4         \* largest number_of_reviewers
MaxCalls == 3        \* collaborator calls between two clear_cache calls
MaxClears == 2       \* clear_cache calls

----------------------------------------------------------------------------
(* Strings *)

Alice == <<"a", "l", "i", "c", "e">>
Bob == <<"b", "o", "b">>
Backend == <<"b", "a", "c", "k", "e", "n", "d">>
Ops == <<"o", "p", "s">>
TeamPrefix == <<"t", "e", "a", "m", ":">>
TeamInfra == TeamPrefix \o <<"i", "n", "f", "r", "a">>
TeamOps == TeamPrefix \o Ops
DoNotReview == <<"D", "O", " ", "N", "O", "T", " ", "R", "E", "V", "I", "E", "W">>
Wip == <<"W", "I", "P">>
PatternMd == <<"*", ".", "m", "d">>
PatternSrc == <<"s", "r", "c", "/", "?", ".", "j", "s">>
ReadmeMd == <<"R", "E", "A", "D", "M", "E", ".", "m", "d">>
SrcAJs == <<"s", "r", "c", "/", "a", ".", "j", "s">>
DocsXMd == <<"d", "o", "c", "s", "/", "x", ".", "m", "d">>

\* All sequences over S of length at most n.
SeqsUpTo(S, n) == UNION {[1..k -> S] : k \in 0..n}

\* Array.prototype.includes
ArrIncludes(arr, x) == \E i \in 1..Len(arr) : arr[i] = x

\* String.prototype.indexOf(needle), 1-based; 0 when the needle does not occur.
RECURSIVE IndexFrom(_, _, _)
IndexFrom(s, needle, i) ==
    IF i + Len(needle) - 1 > Len(s) THEN 0
    ELSE IF SubSeq(s, i, i + Len(needle) - 1) = needle THEN i
    ELSE IndexFrom(s, needle, i + 1)

IndexOf(s, needle) == IndexFrom(s, needle, 1)

\* String.prototype.includes
StrIncludes(s, needle) == IndexOf(s, needle) # 0

\* String.prototype.startsWith
StartsWith(s, prefix) ==
    Len(s) >= Len(prefix) /\ SubSeq(s, 1, Len(prefix)) = prefix

\* String.prototype.replace(pattern, replacement) with a string pattern:
\* the first occurrence only.
StrReplace(s, pattern, replacement) ==
    LET i == IndexOf(s, pattern) IN
    IF i = 0 THEN s
    ELSE SubSeq(s, 1, i - 1) \o replacement \o SubSeq(s, i + Len(pattern), Len(s))

\* Object spread { ...a, ...b }: the keys of both, b's value winning.
Spread(a, b) ==
    [k \in (DOMAIN a) \cup (DOMAIN b) |-> IF k \in DOMAIN b THEN b[k] ELSE a[k]]

\* An object without keys (also what spreading undefined contributes).
EmptyObject == [k \in {} |-> TRUE]

----------------------------------------------------------------------------
(* should_request_review *)

GATE_DEFAULT_OPTIONS == [ignore_draft |-> TRUE, ignored_keywords |-> <<DoNotReview>>]

\* ignored_keywords.some((keyword) => title.includes(keyword)), left to right
RECURSIVE SomeKeyword(_, _, _)
SomeKeyword(keywords, t, i) ==
    IF i > Len(keywords) THEN FALSE
    ELSE IF StrIncludes(t, keywords[i]) THEN TRUE
    ELSE SomeKeyword(keywords, t, i + 1)

\* Faulty variant: a draft is not refused.
should_request_review_no_draft_check(t, draft, options) ==
    LET o == Spread(GATE_DEFAULT_OPTIONS, options) IN
    ~SomeKeyword(o.ignored_keywords, t, 1)

should_request_review(t, draft, options) ==
    LET o == Spread(GATE_DEFAULT_OPTIONS, options) IN
    IF o.ignore_draft /\ draft THEN FALSE
    ELSE ~SomeKeyword(o.ignored_keywords, t, 1)

TitleAlphabet == {"W", "I", "P", "w"}

Titles ==
    SeqsUpTo(TitleAlphabet, MaxTitleLen)
    \cup {DoNotReview, Wip \o <<" ">> \o DoNotReview, DoNotReview \o <<"!">>,
          <<"d", "o", " ", "n", "o", "t", " ", "r", "e", "v", "i", "e", "w">>,
          SubSeq(DoNotReview, 1, 12), Wip \o <<":">> \o SubSeq(DoNotReview, 2, 13)}

KeywordLists ==
    {<<>>, <<Wip>>, <<DoNotReview, Wip>>, <<<<"I">>, <<"w", "w">>>>, <<<<>>>>,
     <<<<"W", "P">>>>}

\* config.options as far as should_request_review reads it: each key present or not.
GateOptions ==
    {EmptyObject}
    \cup {[ignore_draft |-> d] : d \in BOOLEAN}
    \cup {[ignored_keywords |-> k] : k \in KeywordLists}
    \cup {[ignore_draft |-> d, ignored_keywords |-> k] : d \in BOOLEAN, k \in KeywordLists}

GateIdle ==
    /\ title = <<>>
    /\ is_draft = FALSE
    /\ gate_options = EmptyObject
    /\ gate_pc = "idle"
    /\ eligible = FALSE

GateStart ==
    /\ title \in Titles
    /\ is_draft \in BOOLEAN
    /\ gate_options \in GateOptions
    /\ gate_pc = "call"
    /\ eligible = FALSE

GateCall ==
    /\ gate_pc = "call"
    /\ eligible' = should_request_review(title, is_draft, gate_options)
    /\ gate_pc' = "returned"
    /\ UNCHANGED <<title, is_draft, gate_options>>
    /\ UNCHANGED not_gate_vars


\* The claim's own reading of the effective options and of "contains as a substring".
EffectiveIgnoreDraft ==
    IF "ignore_draft" \in DOMAIN gate_options THEN gate_options.ignore_draft ELSE TRUE

EffectiveIgnoredKeywords ==
    IF "ignored_keywords" \in DOMAIN gate_options
    THEN {gate_options.ignored_keywords[i] : i \in 1..Len(gate_options.ignored_keywords)}
    ELSE {DoNotReview}

IsSubstring(kw, t) ==
    \E pre \in 0..Len(t) : \E post \in 0..(Len(t) - pre) :
        /\ pre + Len(kw) + post = Len(t)
        /\ \A i \in 1..Len(kw) : t[pre + i] = kw[i]

\* C2: should_request_review returns false exactly when (effective ignore_draft
\* and the pull request is a draft) or the title contains one of the effective
\* ignored keywords as a substring; the defaults are true and ["DO NOT REVIEW"].
C2_Eligibility ==
    gate_pc = "returned" =>
        (eligible <=>
            ~((EffectiveIgnoreDraft /\ is_draft)
              \/ \E kw \in EffectiveIgnoredKeywords : IsSubstring(kw, title)))

\* With no option set, a pull request that is not a draft and whose title holds
\* the default keyword after other text was refused.
C2_WitnessKeyword ==
    /\ gate_pc = "returned"
    /\ gate_options = EmptyObject
    /\ ~is_draft
    /\ title = Wip \o <<" ">> \o DoNotReview
    /\ ~eligible

----------------------------------------------------------------------------
(* Reviewer lists and configuration *)

Individuals == {Alice, Bob}
GroupNames == {Backend, Ops}
Ids == Individuals \cup GroupNames

\* Object.entries / Object.keys visit the keys in insertion order; the model
\* fixes one order of the keys it knows.
KeyOrder == <<Alice, Bob, Backend, Ops, PatternMd, PatternSrc>>

RECURSIVE KeysFrom(_, _)
KeysFrom(obj, i) ==
    IF i > Len(KeyOrder) THEN <<>>
    ELSE (IF KeyOrder[i] \in DOMAIN obj THEN <<KeyOrder[i]>> ELSE <<>>)
         \o KeysFrom(obj, i + 1)

ObjectKeys(obj) == KeysFrom(obj, 1)

\* The elements of an array, as a set.
Elems(arr) == {arr[i] : i \in 1..Len(arr)}

\* [ ...new Set(arr) ]: the first occurrence of each element, in order.
RECURSIVE DedupeFrom(_, _)
DedupeFrom(arr, i) ==
    IF i > Len(arr) THEN <<>>
    ELSE (IF \E j \in 1..(i - 1) : arr[j] = arr[i] THEN <<>> ELSE <<arr[i]>>)
         \o DedupeFrom(arr, i + 1)

Dedupe(arr) == DedupeFrom(arr, 1)

\* arr.filter((x) => x !== v)
RECURSIVE WithoutFrom(_, _, _)
WithoutFrom(arr, v, i) ==
    IF i > Len(arr) THEN <<>>
    ELSE (IF arr[i] = v THEN <<>> ELSE <<arr[i]>>) \o WithoutFrom(arr, v, i + 1)

Without(arr, v) == WithoutFrom(arr, v, 1)

\* arr.filter((x) => !other.includes(x))
RECURSIVE NotInFrom(_, _, _)
NotInFrom(arr, other, i) ==
    IF i > Len(arr) THEN <<>>
    ELSE (IF ArrIncludes(other, arr[i]) THEN <<>> ELSE <<arr[i]>>)
         \o NotInFrom(arr, other, i + 1)

NotIn(arr, other) == NotInFrom(arr, other, 1)

Has(obj, key) == key \in DOMAIN obj

\* config.options, or nothing to spread when the section is absent
OptionsOf(config) == IF Has(config, "options") THEN config.options ELSE EmptyObject

\* (config.reviewers && config.reviewers.groups) || {}
GroupsOf(config) ==
    IF Has(config, "reviewers") /\ Has(config.reviewers, "groups")
    THEN config.reviewers.groups
    ELSE EmptyObject

\* Faulty variant: a group name is kept beside its members.
RECURSIVE ReplaceKeepingNameFrom(_, _, _)
ReplaceKeepingNameFrom(reviewers, groups, i) ==
    IF i > Len(reviewers) THEN <<>>
    ELSE (IF reviewers[i] \in DOMAIN groups
          THEN <<reviewers[i]>> \o groups[reviewers[i]]
          ELSE <<reviewers[i]>>)
         \o ReplaceKeepingNameFrom(reviewers, groups, i + 1)

replace_groups_keeping_name(reviewers, config) ==
    ReplaceKeepingNameFrom(reviewers, GroupsOf(config), 1)

\* reviewers.flatMap((reviewer) =>
\*   Array.isArray(groups[reviewer]) ? groups[reviewer] : reviewer)
\* (every group of the model is an array)
RECURSIVE ReplaceFrom(_, _, _)
ReplaceFrom(reviewers, groups, i) ==
    IF i > Len(reviewers) THEN <<>>
    ELSE (IF reviewers[i] \in DOMAIN groups
          THEN groups[reviewers[i]]
          ELSE <<reviewers[i]>>)
         \o ReplaceFrom(reviewers, groups, i + 1)

replace_groups_with_individuals(reviewers, config) ==
    ReplaceFrom(reviewers, GroupsOf(config), 1)

exclude_reviewers(reviewers, excludes) == NotIn(Dedupe(reviewers), excludes)

\* A configured defaults value is an array; an absent one is undefined, which
\* Array.isArray refuses.
fetch_default_reviewers(config, excludes) ==
    IF ~Has(config, "reviewers") \/ ~Has(config.reviewers, "defaults") THEN <<>>
    ELSE exclude_reviewers(
             replace_groups_with_individuals(config.reviewers.defaults, config),
             excludes)

\* Faulty variant: options.exclude is applied as written, its groups not expanded.
filter_excluded_reviewers_unexpanded(reviewers, config) ==
    LET o == Spread(EmptyObject, OptionsOf(config))
        exclude == IF Has(o, "exclude") THEN o.exclude ELSE <<>>
    IN exclude_reviewers(reviewers, exclude)

filter_excluded_reviewers(reviewers, config) ==
    LET o == Spread(EmptyObject, OptionsOf(config))
        exclude == IF Has(o, "exclude") THEN o.exclude ELSE <<>>
        excluded_individuals == replace_groups_with_individuals(exclude, config)
    IN exclude_reviewers(reviewers, excluded_individuals)

OTHER_MEMBERS_DEFAULT_OPTIONS == [enable_group_assignment |-> FALSE]

\* groups of belonging_group_names, flattened
RECURSIVE FlatGroups(_, _, _)
FlatGroups(names, groups, i) ==
    IF i > Len(names) THEN <<>>
    ELSE groups[names[i]] \o FlatGroups(names, groups, i + 1)

\* the group names whose members include the author, the falsy (empty) name
\* filtered out
RECURSIVE BelongingFrom(_, _, _, _)
BelongingFrom(names, groups, author, i) ==
    IF i > Len(names) THEN <<>>
    ELSE (IF ArrIncludes(groups[names[i]], author) /\ Len(names[i]) > 0
          THEN <<names[i]>> ELSE <<>>)
         \o BelongingFrom(names, groups, author, i + 1)

fetch_other_group_members(author, config) ==
    LET o == Spread(OTHER_MEMBERS_DEFAULT_OPTIONS, OptionsOf(config))
        groups == GroupsOf(config)
        belonging_group_names == BelongingFrom(ObjectKeys(groups), groups, author, 1)
        other_group_members ==
            Without(FlatGroups(belonging_group_names, groups, 1), author)
    IN IF ~o.enable_group_assignment THEN <<>> ELSE Dedupe(other_group_members)

\* minimatch(file, pattern) for the patterns of the model: a literal
\* character, "?" (one character other than "/") and "*" (any run of
\* characters other than "/").
RECURSIVE GlobFrom(_, _, _, _)
GlobFrom(file, i, pattern, j) ==
    IF j > Len(pattern) THEN i > Len(file)
    ELSE IF pattern[j] = "*"
    THEN \/ GlobFrom(file, i, pattern, j + 1)
         \/ i <= Len(file) /\ file[i] # "/" /\ GlobFrom(file, i + 1, pattern, j)
    ELSE IF pattern[j] = "?"
    THEN i <= Len(file) /\ file[i] # "/" /\ GlobFrom(file, i + 1, pattern, j + 1)
    ELSE i <= Len(file) /\ file[i] = pattern[j] /\ GlobFrom(file, i + 1, pattern, j + 1)

minimatch(file, pattern) == GlobFrom(file, 1, pattern, 1)

\* the reviewers of every pattern that some changed file matches, in key order
RECURSIVE MatchingFrom(_, _, _, _)
MatchingFrom(patterns, files, changed_files, i) ==
    IF i > Len(patterns) THEN <<>>
    ELSE (IF \E k \in 1..Len(changed_files) : minimatch(changed_files[k], patterns[i])
          THEN files[patterns[i]] ELSE <<>>)
         \o MatchingFrom(patterns, files, changed_files, i + 1)

identify_reviewers_by_changed_files(config, changed_files, excludes) ==
    IF ~Has(config, "files") THEN <<>>
    ELSE LET matching_reviewers ==
                 MatchingFrom(ObjectKeys(config.files), config.files, changed_files, 1)
             individuals == replace_groups_with_individuals(matching_reviewers, config)
         IN exclude_reviewers(individuals, excludes)

\* the keys of per_author that are the author or a group holding the author
RECURSIVE MatchingAuthorsFrom(_, _, _, _)
MatchingAuthorsFrom(keys, config, specified_author, i) ==
    IF i > Len(keys) THEN <<>>
    ELSE (IF \/ keys[i] = specified_author
             \/ ArrIncludes(replace_groups_with_individuals(<<keys[i]>>, config),
                            specified_author)
          THEN <<keys[i]>> ELSE <<>>)
         \o MatchingAuthorsFrom(keys, config, specified_author, i + 1)

RECURSIVE AuthorReviewersFrom(_, _, _)
AuthorReviewersFrom(matching_authors, config, i) ==
    IF i > Len(matching_authors) THEN <<>>
    ELSE replace_groups_with_individuals(
             config.reviewers.per_author[matching_authors[i]], config)
         \o AuthorReviewersFrom(matching_authors, config, i + 1)

\* Faulty variant: the author is not stripped from the result.
identify_reviewers_by_author_keeping_author(config, specified_author) ==
    IF ~(Has(config, "reviewers") /\ Has(config.reviewers, "per_author")) THEN <<>>
    ELSE AuthorReviewersFrom(
             MatchingAuthorsFrom(ObjectKeys(config.reviewers.per_author), config,
                                 specified_author, 1),
             config, 1)

identify_reviewers_by_author(config, specified_author) ==
    IF ~(Has(config, "reviewers") /\ Has(config.reviewers, "per_author")) THEN <<>>
    ELSE LET matching_authors ==
                 MatchingAuthorsFrom(ObjectKeys(config.reviewers.per_author), config,
                                     specified_author, 1)
             matching_reviewers == AuthorReviewersFrom(matching_authors, config, 1)
         IN Without(matching_reviewers, specified_author)

\* lodash sampleSize(collection, n): n is clamped to 0..length and that many
\* elements at distinct positions are returned, in any order.  The result is
\* one of these arrays.
sample_size(collection, n) ==
    LET m == IF n < 0 THEN 0 ELSE IF n > Len(collection) THEN Len(collection) ELSE n
        positions == {f \in [1..m -> 1..Len(collection)] :
                         \A a, b \in 1..m : a # b => f[a] # f[b]}
    IN {[i \in 1..m |-> collection[f[i]]] : f \in positions}

\* Faulty variant: the unset case samples like lodash's default size, 1.
randomly_pick_reviewers_always_samples(reviewers, config) ==
    LET o == Spread(EmptyObject, OptionsOf(config)) IN
    sample_size(reviewers,
                IF Has(o, "number_of_reviewers") THEN o.number_of_reviewers ELSE 1)

\* The arrays randomly_pick_reviewers may return.
randomly_pick_reviewers(reviewers, config) ==
    LET o == Spread(EmptyObject, OptionsOf(config)) IN
    IF ~Has(o, "number_of_reviewers") THEN {reviewers}
    ELSE sample_size(reviewers, o.number_of_reviewers)

\* obj with key set to val
Put(obj, key, val) ==
    [k \in (DOMAIN obj) \cup {key} |-> IF k = key THEN val ELSE obj[k]]

\* config with config.reviewers[key] set to val
PutReviewers(config, key, val) ==
    Put(config, "reviewers",
        Put(IF Has(config, "reviewers") THEN config.reviewers ELSE EmptyObject, key, val))

\* config with config.options[key] set to val
PutOption(config, key, val) ==
    Put(config, "options", Put(OptionsOf(config), key, val))

----------------------------------------------------------------------------
(* The synchronous functions, each called once on drawn arguments *)

ReviewerLists == SeqsUpTo(Ids, MaxLen)

\* at most one identifier
ShortLists == {<<>>} \cup {<<x>> : x \in Ids}

\* the excludes argument: nothing, or one individual
ExcludeArgs == {<<>>} \cup {<<x>> : x \in Individuals}

\* reviewers.groups: each group present or not; a member may be any
\* identifier, a group name included.
GroupMaps ==
    {EmptyObject}
    \cup {(Backend :> b) : b \in ReviewerLists}
    \cup {(Ops :> <<Alice, Bob>>)}
    \cup {(Backend :> b) @@ (Ops :> <<Alice, Bob>>) : b \in ReviewerLists}

\* A configuration holding the groups only; the section a function reads is
\* added when it is called.
BaseConfigs ==
    {EmptyObject, [reviewers |-> EmptyObject]}
    \cup {[reviewers |-> [groups |-> g]] : g \in GroupMaps}

ChangedFileLists == {<<SrcAJs>>, <<DocsXMd, ReadmeMd>>}

CallIdle ==
    /\ call_fn = "idle"
    /\ call_config = EmptyObject
    /\ call_author = <<>>
    /\ call_reviewers = <<>>
    /\ call_changed_files = <<>>
    /\ call_excludes = <<>>
    /\ call_out = <<>>

CallStart ==
    /\ call_fn = "none"
    /\ call_config \in BaseConfigs
    /\ call_author \in Individuals
    /\ call_reviewers = <<>>
    /\ call_changed_files = <<>>
    /\ call_excludes = <<>>
    /\ call_out = <<>>

CallFetchDefault ==
    /\ call_fn = "none"
    /\ \E present \in BOOLEAN, d \in ReviewerLists, ex \in ExcludeArgs :
        /\ call_config' = IF present THEN PutReviewers(call_config, "defaults", d)
                          ELSE call_config
        /\ call_excludes' = ex
        /\ call_out' = fetch_default_reviewers(call_config', ex)
    /\ call_fn' = "fetch_default_reviewers"
    /\ UNCHANGED <<call_author, call_reviewers, call_changed_files>>
    /\ UNCHANGED not_call_vars

CallByChangedFiles ==
    /\ call_fn = "none"
    /\ \E present \in BOOLEAN, pattern \in {PatternMd, PatternSrc},
          d \in ReviewerLists, cf \in ChangedFileLists, ex \in ExcludeArgs :
        /\ call_config' = IF present THEN Put(call_config, "files", (pattern :> d))
                          ELSE call_config
        /\ call_changed_files' = cf
        /\ call_excludes' = ex
        /\ call_out' = identify_reviewers_by_changed_files(call_config', cf, ex)
    /\ call_fn' = "identify_reviewers_by_changed_files"
    /\ UNCHANGED <<call_author, call_reviewers>>
    /\ UNCHANGED not_call_vars

CallByAuthor ==
    /\ call_fn = "none"
    /\ \E present \in BOOLEAN, key \in Ids, d \in ReviewerLists :
        /\ call_config' = IF present
                          THEN PutReviewers(call_config, "per_author", (key :> d))
                          ELSE call_config
        /\ call_out' = identify_reviewers_by_author(call_config', call_author)
    /\ call_fn' = "identify_reviewers_by_author"
    /\ UNCHANGED <<call_author, call_reviewers, call_changed_files, call_excludes>>
    /\ UNCHANGED not_call_vars

CallOtherGroupMembers ==
    /\ call_fn = "none"
    /\ \E present \in BOOLEAN, enable \in BOOLEAN :
        /\ call_config' = IF present
                          THEN PutOption(call_config, "enable_group_assignment", enable)
                          ELSE call_config
        /\ call_out' = fetch_other_group_members(call_author, call_config')
    /\ call_fn' = "fetch_other_group_members"
    /\ UNCHANGED <<call_author, call_reviewers, call_changed_files, call_excludes>>
    /\ UNCHANGED not_call_vars

CallFilterExcluded ==
    /\ call_fn = "none"
    /\ \E present \in BOOLEAN, ex \in ShortLists, r \in ReviewerLists :
        /\ call_config' = IF present THEN PutOption(call_config, "exclude", ex)
                          ELSE call_config
        /\ call_reviewers' = r
        /\ call_out' = filter_excluded_reviewers(r, call_config')
    /\ call_fn' = "filter_excluded_reviewers"
    /\ UNCHANGED <<call_author, call_changed_files, call_excludes>>
    /\ UNCHANGED not_call_vars

CallNext ==
    \/ CallFetchDefault
    \/ CallByChangedFiles
    \/ CallByAuthor
    \/ CallOtherGroupMembers
    \/ CallFilterExcluded


----------------------------------------------------------------------------
(* One run of the synchronous stages.  Each section of the configuration is
   read by one stage only and is drawn when that stage reads it; the groups,
   which every stage reads, are fixed from the start. *)

RunIdle ==
    /\ run_pc = "idle"
    /\ run_config = EmptyObject
    /\ run_author = <<>>
    /\ run_reviewers = <<>>
    /\ run_named_author = FALSE

RunStart ==
    /\ run_pc = "files"
    /\ run_config \in BaseConfigs
    /\ run_author \in Individuals
    /\ run_reviewers = <<>>
    /\ run_named_author = FALSE

\* the candidate set with the reviewers of one more source merged in
Merged(reviewers, more) == Dedupe(reviewers \o more)

\* whether the section just read names the author once its groups are expanded
NamesAuthor(list, config) ==
    ArrIncludes(replace_groups_with_individuals(list, config), run_author)

RunByChangedFiles ==
    /\ run_pc = "files"
    /\ \E present \in BOOLEAN, pattern \in {PatternMd, PatternSrc},
          d \in ReviewerLists, cf \in ChangedFileLists :
        LET config == IF present THEN Put(run_config, "files", (pattern :> d))
                      ELSE run_config
        IN /\ run_reviewers' =
                  Merged(run_reviewers,
                         identify_reviewers_by_changed_files(config, cf, <<run_author>>))
           /\ run_named_author' =
                  (run_named_author
                   \/ (present /\ NamesAuthor(d, config)
                       /\ \E k \in 1..Len(cf) : minimatch(cf[k], pattern)))
    /\ run_pc' = "author"
    /\ UNCHANGED <<run_config, run_author>>
    /\ UNCHANGED not_run_vars

RunByAuthor ==
    /\ run_pc = "author"
    /\ \E present \in BOOLEAN, key \in Ids, d \in ReviewerLists :
        LET config == IF present THEN PutReviewers(run_config, "per_author", (key :> d))
                      ELSE run_config
        IN /\ run_reviewers' =
                  Merged(run_reviewers, identify_reviewers_by_author(config, run_author))
           /\ run_named_author' =
                  (run_named_author
                   \/ (present /\ NamesAuthor(d, config) /\ NamesAuthor(<<key>>, config)))
    /\ run_pc' = "groups"
    /\ UNCHANGED <<run_config, run_author>>
    /\ UNCHANGED not_run_vars

RunOtherGroupMembers ==
    /\ run_pc = "groups"
    /\ \E present \in BOOLEAN, enable \in BOOLEAN :
        LET config == IF present
                      THEN PutOption(run_config, "enable_group_assignment", enable)
                      ELSE run_config
        IN /\ run_reviewers' =
                  Merged(run_reviewers, fetch_other_group_members(run_author, config))
           /\ run_named_author' =
                  (run_named_author
                   \/ (present /\ enable
                       /\ \E g \in DOMAIN GroupsOf(config) :
                              ArrIncludes(GroupsOf(config)[g], run_author)))
    /\ run_pc' = "defaults"
    /\ UNCHANGED <<run_config, run_author>>
    /\ UNCHANGED not_run_vars

RunFetchDefault ==
    /\ run_pc = "defaults"
    /\ \E present \in BOOLEAN, d \in ReviewerLists :
        LET config == IF present THEN PutReviewers(run_config, "defaults", d)
                      ELSE run_config
        IN /\ run_reviewers' =
                  Merged(run_reviewers, fetch_default_reviewers(config, <<run_author>>))
           /\ run_named_author' =
                  (run_named_author \/ (present /\ NamesAuthor(d, config)))
    /\ run_pc' = "exclude"
    /\ UNCHANGED <<run_config, run_author>>
    /\ UNCHANGED not_run_vars

RunFilterExcluded ==
    /\ run_pc = "exclude"
    /\ \E present \in BOOLEAN, ex \in ShortLists :
        LET config == IF present THEN PutOption(run_config, "exclude", ex)
                      ELSE run_config
        IN run_reviewers' = filter_excluded_reviewers(run_reviewers, config)
    /\ run_pc' = "sample"
    /\ UNCHANGED <<run_config, run_author, run_named_author>>
    /\ UNCHANGED not_run_vars

RunRandomlyPick ==
    /\ run_pc = "sample"
    /\ \E present \in BOOLEAN, n \in 0..MaxPick :
        LET config == IF present THEN PutOption(run_config, "number_of_reviewers", n)
                      ELSE run_config
        IN run_reviewers' \in randomly_pick_reviewers(run_reviewers, config)
    /\ run_pc' = "done"
    /\ UNCHANGED <<run_config, run_author, run_named_author>>
    /\ UNCHANGED not_run_vars

RunNext ==
    \/ RunByChangedFiles
    \/ RunByAuthor
    \/ RunOtherGroupMembers
    \/ RunFetchDefault
    \/ RunFilterExcluded
    \/ RunRandomlyPick

----------------------------------------------------------------------------
(* randomly_pick_reviewers on a drawn pool *)

PoolIds == {Alice, Bob, Backend, TeamInfra}

\* the arrays over PoolIds without a repeated element, MaxPool long at most
Pools ==
    {p \in SeqsUpTo(PoolIds, MaxPool) : \A i, j \in 1..Len(p) : i # j => p[i] # p[j]}

PickIdle ==
    /\ pick_pool = <<>>
    /\ pick_options = EmptyObject
    /\ pick_pc = "idle"
    /\ pick_out = <<>>

PickStart ==
    /\ pick_pool \in Pools
    /\ pick_options \in {EmptyObject} \cup {[number_of_reviewers |-> n] : n \in 0..MaxPick}
    /\ pick_pc = "call"
    /\ pick_out = <<>>

PickCall ==
    /\ pick_pc = "call"
    /\ pick_out' \in randomly_pick_reviewers(pick_pool, [options |-> pick_options])
    /\ pick_pc' = "returned"
    /\ UNCHANGED <<pick_pool, pick_options>>
    /\ UNCHANGED not_pick_vars

----------------------------------------------------------------------------
(* Live reconciliation: fetch_author_belongs_to_github_team_members, then
   filter_already_requested_reviewers, then assign_reviewers *)

\* The value undefined where an array element or a resolved value may be it.
Undefined == <<"undefined">>

Logins == {Alice, Bob}

\* A team's roster on GitHub lists each member once.
Rosters ==
    {r \in SeqsUpTo(Logins, Cardinality(Logins)) :
         \A i, j \in 1..Len(r) : i # j => r[i] # r[j]}

\* What octokit.teams.listMembersInOrg does for a team: it resolves with the
\* members, or rejects with status 404, or rejects with another error.
ApiAnswers ==
    {[kind |-> "members", members |-> r] : r \in Rosters}
    \cup {[kind |-> "not_found", members |-> <<>>], [kind |-> "error", members |-> <<>>]}

InfraSlug == <<"i", "n", "f", "r", "a">>

LiveCandidates == SeqsUpTo({Alice, Bob, TeamInfra, TeamOps}, MaxLen)

LiveOptions ==
    {EmptyObject, [force_pick |-> TRUE], [load_github_members |-> FALSE],
     [load_github_members |-> TRUE],
     [load_github_members |-> TRUE, force_pick |-> FALSE],
     [load_github_members |-> TRUE, force_pick |-> TRUE],
     [load_github_members |-> FALSE, force_pick |-> TRUE]}

\* What list_team_members(team) resolves with, given the API's answer: the
\* logins; [] after the warning on status 404; and undefined on any other
\* error, which the catch block swallows.
list_team_members(answer) ==
    IF answer.kind = "members" THEN answer.members
    ELSE IF answer.kind = "not_found" THEN <<>>
    ELSE Undefined

\* Faulty variant: the option is tested for truthiness, not for presence.
live_members_unset_or_false(options) ==
    LET o == Spread([force_pick |-> FALSE], options) IN
    ~Has(o, "load_github_members") \/ ~o.load_github_members

\* load_github_members === undefined, after the spread over the defaults
live_members_unset(options) ==
    LET o == Spread([force_pick |-> FALSE], options) IN
    ~Has(o, "load_github_members")

\* partition(reviewers, (reviewer) => reviewer.startsWith('team:')), first part
RECURSIVE TeamsWithPrefixFrom(_, _)
TeamsWithPrefixFrom(reviewers, i) ==
    IF i > Len(reviewers) THEN <<>>
    ELSE (IF StartsWith(reviewers[i], TeamPrefix) THEN <<reviewers[i]>> ELSE <<>>)
         \o TeamsWithPrefixFrom(reviewers, i + 1)

\* second part
RECURSIVE IndividualsFrom(_, _)
IndividualsFrom(reviewers, i) ==
    IF i > Len(reviewers) THEN <<>>
    ELSE (IF StartsWith(reviewers[i], TeamPrefix) THEN <<>> ELSE <<reviewers[i]>>)
         \o IndividualsFrom(reviewers, i + 1)

\* teams_with_prefix.map((t) => t.replace('team:', ''))
TeamSlugs(reviewers) ==
    LET teams_with_prefix == TeamsWithPrefixFrom(reviewers, 1) IN
    [i \in 1..Len(teams_with_prefix) |-> StrReplace(teams_with_prefix[i], TeamPrefix, <<>>)]

\* teams.map(team => github.list_team_members(team)): every call is made, and
\* runs up to its request, before the stage awaits anything.
issued_before_await(teams) == 1..Len(teams)

\* Faulty variant: the stage goes on when one lookup has completed.
any_settled(promises) ==
    Len(promises) = 0 \/ \E i \in 1..Len(promises) : promises[i].state = "resolved"

\* await Promise.all(unresolved_promises) goes on when all have resolved (no
\* promise of list_team_members rejects: its catch block swallows the error).
all_settled(promises) ==
    \A i \in 1..Len(promises) : promises[i].state = "resolved"

\* team_members.filter((members) => members.includes(author))
RECURSIVE RostersWithAuthorFrom(_, _, _)
RostersWithAuthorFrom(team_members, author, i) ==
    IF i > Len(team_members) THEN <<>>
    ELSE (IF ArrIncludes(team_members[i], author) THEN <<team_members[i]>> ELSE <<>>)
         \o RostersWithAuthorFrom(team_members, author, i + 1)

\* team_members.flat(): an element that is no array stays as it is
RECURSIVE FlatFrom(_, _)
FlatFrom(team_members, i) ==
    IF i > Len(team_members) THEN <<>>
    ELSE (IF team_members[i] = Undefined THEN <<Undefined>> ELSE team_members[i])
         \o FlatFrom(team_members, i + 1)

\* The rest of fetch_author_belongs_to_github_team_members once Promise.all has
\* resolved with team_members: the list returned, or the TypeError of
\* members.includes on undefined.
team_stage_result(reviewers, team_members, author, options) ==
    LET o == Spread([force_pick |-> FALSE], options)
        individuals == IndividualsFrom(reviewers, 1)
    IN IF ~o.force_pick /\ \E i \in 1..Len(team_members) : team_members[i] = Undefined
       THEN [threw |-> TRUE, value |-> <<>>]
       ELSE LET kept == IF ~o.force_pick
                        THEN RostersWithAuthorFrom(team_members, author, 1)
                        ELSE team_members
            IN [threw |-> FALSE,
                value |-> Dedupe(individuals \o Without(FlatFrom(kept, 1), author))]

LiveIdle ==
    /\ live_reviewers = <<>>
    /\ live_author = <<>>
    /\ live_options = EmptyObject
    /\ live_api = EmptyObject
    /\ live_promises = <<>>
    /\ live_pc = "idle"
    /\ live_result = <<>>
    /\ live_requested = <<>>
    /\ live_calls = [team_members |-> 0, requested |-> 0, assign |-> 0, request |-> 0]
    /\ live_order = <<>>

LiveStart ==
    /\ live_reviewers \in LiveCandidates
    /\ live_author \in Logins
    /\ live_options \in LiveOptions
    /\ live_api \in {(InfraSlug :> a) @@ (Ops :> b) :
                         a \in ApiAnswers,
                         b \in {[kind |-> "members", members |-> <<Bob>>],
                                [kind |-> "not_found", members |-> <<>>],
                                [kind |-> "error", members |-> <<>>]}}
    /\ live_promises = <<>>
    /\ live_pc = "start"
    /\ live_result = <<>>
    /\ live_requested = <<>>
    /\ live_calls = [team_members |-> 0, requested |-> 0, assign |-> 0, request |-> 0]
    /\ live_order = <<>>

\* fetch_author_belongs_to_github_team_members up to its await
LiveFetchCall ==
    /\ live_pc = "start"
    /\ IF live_members_unset(live_options)
       THEN /\ live_result' = live_reviewers
            /\ live_pc' = "returned"
            /\ UNCHANGED <<live_promises, live_calls>>
       ELSE LET teams == TeamSlugs(live_reviewers) IN
            /\ live_promises' =
                   [i \in 1..Len(teams) |->
                       [team |-> teams[i],
                        state |-> IF i \in issued_before_await(teams)
                                  THEN "pending" ELSE "unissued",
                        value |-> <<>>]]
            /\ live_calls' =
                   [live_calls EXCEPT
                       !.team_members = Cardinality(issued_before_await(teams))]
            /\ live_pc' = "awaiting"
            /\ UNCHANGED live_result
    /\ UNCHANGED <<live_reviewers, live_author, live_options, live_api,
                   live_requested, live_order>>
    /\ UNCHANGED not_live_vars

\* one lookup completes, in any order
LiveLookupCompletes(i) ==
    /\ live_pc = "awaiting"
    /\ live_promises[i].state = "pending"
    /\ live_promises' =
           [live_promises EXCEPT
               ![i].state = "resolved",
               ![i].value = list_team_members(live_api[live_promises[i].team])]
    /\ live_order' = Append(live_order, i)
    /\ UNCHANGED <<live_reviewers, live_author, live_options, live_api, live_pc,
                   live_result, live_requested, live_calls>>
    /\ UNCHANGED not_live_vars

\* Promise.all resolves and the function runs to its end
LiveFetchResume ==
    /\ live_pc = "awaiting"
    /\ all_settled(live_promises)
    /\ LET team_members == [i \in 1..Len(live_promises) |-> live_promises[i].value]
           r == team_stage_result(live_reviewers, team_members, live_author, live_options)
       IN /\ live_pc' = IF r.threw THEN "threw" ELSE "returned"
          /\ live_result' = r.value
    /\ UNCHANGED <<live_reviewers, live_author, live_options, live_api, live_promises,
                   live_requested, live_calls, live_order>>
    /\ UNCHANGED not_live_vars

\* filter_already_requested_reviewers up to its await
LiveFilterCall ==
    /\ live_pc = "returned"
    /\ IF live_members_unset(live_options)
       THEN /\ live_pc' = "filtered"
            /\ UNCHANGED live_calls
       ELSE /\ live_pc' = "awaiting_requested"
            /\ live_calls' = [live_calls EXCEPT !.requested = @ + 1]
    /\ UNCHANGED <<live_reviewers, live_author, live_options, live_api, live_promises,
                   live_result, live_requested, live_order>>
    /\ UNCHANGED not_live_vars

\* list_requested_reviewers resolves
LiveRequestedResolves ==
    /\ live_pc = "awaiting_requested"
    /\ \E requested \in SeqsUpTo(Logins, 2) :
        /\ live_requested' = requested
        /\ live_result' = NotIn(live_result, requested)
    /\ live_pc' = "filtered"
    /\ UNCHANGED <<live_reviewers, live_author, live_options, live_api, live_promises,
                   live_calls, live_order>>
    /\ UNCHANGED not_live_vars

\* list_requested_reviewers rejects: nothing catches it
LiveRequestedRejects ==
    /\ live_pc = "awaiting_requested"
    /\ live_pc' = "failed"
    /\ UNCHANGED <<live_reviewers, live_author, live_options, live_api, live_promises,
                   live_result, live_requested, live_calls, live_order>>
    /\ UNCHANGED not_live_vars

\* assign_reviewers(reviewers): the partition calls startsWith on every
\* element, a TypeError on undefined; otherwise the request is sent.
LiveAssign ==
    /\ live_pc = "filtered"
    /\ IF ArrIncludes(live_result, Undefined)
       THEN /\ live_pc' = "assign_threw"
            /\ live_calls' = [live_calls EXCEPT !.assign = @ + 1]
       ELSE /\ live_pc' = "assigned"
            /\ live_calls' = [live_calls EXCEPT !.assign = @ + 1, !.request = @ + 1]
    /\ UNCHANGED <<live_reviewers, live_author, live_options, live_api, live_promises,
                   live_result, live_requested, live_order>>
    /\ UNCHANGED not_live_vars

LiveNext ==
    \/ LiveFetchCall
    \/ \E i \in 1..Len(live_promises) : LiveLookupCompletes(i)
    \/ LiveFetchResume
    \/ LiveFilterCall
    \/ LiveRequestedResolves
    \/ LiveRequestedRejects
    \/ LiveAssign

----------------------------------------------------------------------------
(* The memoized context, token, config path and API client of github.js *)

\* a variable that holds undefined
NoValue == "<undefined>"

\* undefined and the empty string are falsy; every other value here is truthy
Falsy(v) == v = NoValue \/ v = ""

CacheKeys == {"context", "token", "config_path", "octokit"}

\* The caches and counters a getter works on, and whether it threw.
CacheState == [cache |-> cache, reads |-> reads, accesses |-> accesses, threw |-> FALSE]

\* returns cache || (cache = <the source>), for the key k whose source holds v
Memoized(st, k, v) ==
    IF ~Falsy(st.cache[k])
    THEN [st EXCEPT !.accesses[k] = @ + 1]
    ELSE [st EXCEPT !.accesses[k] = @ + 1, !.reads[k] = @ + 1, !.cache[k] = v]

\* Faulty variant: the context is read on every access.
get_context_not_memoized(st) ==
    [st EXCEPT !.accesses.context = @ + 1, !.reads.context = @ + 1,
               !.cache.context = source.context]

get_context(st) == Memoized(st, "context", source.context)

get_token(st) == Memoized(st, "token", source.token)

get_config_path(st) == Memoized(st, "config_path", source.config_path)

\* github.getOctokit(token) builds the client, and throws on an empty token.
get_octokit(st) ==
    IF ~Falsy(st.cache.octokit)
    THEN [st EXCEPT !.accesses.octokit = @ + 1]
    ELSE LET t == get_token(st)
             built == [t EXCEPT !.accesses.octokit = @ + 1, !.reads.octokit = @ + 1]
         IN IF Falsy(t.cache.token)
            THEN [built EXCEPT !.threw = TRUE]
            ELSE [built EXCEPT !.cache.octokit = "octokit"]

\* get_context() then get_octokit(), as fetch_changed_files and
\* assign_reviewers start
ContextThenOctokit(st) == get_octokit(get_context(st))

\* get_octokit() then get_context(), as list_team_members and
\* list_requested_reviewers start
OctokitThenContext(st) ==
    LET o == get_octokit(st) IN IF o.threw THEN o ELSE get_context(o)

\* fetch_config: get_context(), get_octokit(), get_config_path()
ConfigGetters(st) ==
    LET o == ContextThenOctokit(st) IN IF o.threw THEN o ELSE get_config_path(o)

ZeroCounts == [k \in CacheKeys |-> 0]

CacheIdle ==
    /\ source = EmptyObject
    /\ cache = EmptyObject
    /\ reads = ZeroCounts
    /\ accesses = ZeroCounts
    /\ cache_calls = 0
    /\ cache_clears = 0

CacheStart ==
    /\ source \in [context : {"context"}, token : {"", "token"},
                   config_path : {"", "reviewers.yml"}]
    /\ cache = [k \in CacheKeys |-> NoValue]
    /\ reads = ZeroCounts
    /\ accesses = ZeroCounts
    /\ cache_calls = 0
    /\ cache_clears = 0

\* what a collaborator call leaves behind once its getters have run
AfterGetters(st) ==
    /\ cache_calls < MaxCalls
    /\ cache' = st.cache
    /\ reads' = st.reads
    /\ accesses' = st.accesses
    /\ cache_calls' = cache_calls + 1
    /\ UNCHANGED <<source, cache_clears>>

CacheGetPullRequest ==
    /\ AfterGetters(get_context(CacheState))
    /\ UNCHANGED not_cache_vars

CacheFetchConfig ==
    /\ AfterGetters(ConfigGetters(CacheState))
    /\ UNCHANGED not_cache_vars

CacheFetchChangedFiles ==
    /\ AfterGetters(ContextThenOctokit(CacheState))
    /\ UNCHANGED not_cache_vars

CacheAssignReviewers ==
    /\ AfterGetters(ContextThenOctokit(CacheState))
    /\ UNCHANGED not_cache_vars

CacheListTeamMembers ==
    /\ AfterGetters(OctokitThenContext(CacheState))
    /\ UNCHANGED not_cache_vars

CacheListRequestedReviewers ==
    /\ AfterGetters(OctokitThenContext(CacheState))
    /\ UNCHANGED not_cache_vars

clear_cache ==
    /\ cache_clears < MaxClears
    /\ cache' = [k \in CacheKeys |-> NoValue]
    /\ reads' = ZeroCounts
    /\ accesses' = ZeroCounts
    /\ cache_calls' = 0
    /\ cache_clears' = cache_clears + 1
    /\ UNCHANGED source
    /\ UNCHANGED not_cache_vars

CacheNext ==
    \/ CacheGetPullRequest
    \/ CacheFetchConfig
    \/ CacheFetchChangedFiles
    \/ CacheAssignReviewers
    \/ CacheListTeamMembers
    \/ CacheListRequestedReviewers
    \/ clear_cache

----------------------------------------------------------------------------
(* Specifications *)

GateInit == GateStart /\ CallIdle /\ RunIdle /\ PickIdle /\ LiveIdle /\ CacheIdle
GateNext == GateCall
SpecGate == GateInit /\ [][GateNext]_vars

CallInit == CallStart /\ GateIdle /\ RunIdle /\ PickIdle /\ LiveIdle /\ CacheIdle
SpecCalls == CallInit /\ [][CallNext]_vars

RunInit == RunStart /\ GateIdle /\ CallIdle /\ PickIdle /\ LiveIdle /\ CacheIdle
SpecRun == RunInit /\ [][RunNext]_vars

PickInit == PickStart /\ GateIdle /\ CallIdle /\ RunIdle /\ LiveIdle /\ CacheIdle
PickNext == PickCall
SpecPick == PickInit /\ [][PickNext]_vars

LiveInit == LiveStart /\ GateIdle /\ CallIdle /\ RunIdle /\ PickIdle /\ CacheIdle
SpecLive == LiveInit /\ [][LiveNext]_vars

CacheInit == CacheStart /\ GateIdle /\ CallIdle /\ RunIdle /\ PickIdle /\ LiveIdle
SpecCache == CacheInit /\ [][CacheNext]_vars

----------------------------------------------------------------------------
(* Claims about the synchronous functions *)

CallGroups == GroupsOf(call_config)

CallExclude ==
    IF Has(OptionsOf(call_config), "exclude") THEN call_config.options.exclude ELSE <<>>

\* C3: exclusion is applied after group expansion.  The output of
\* filter_excluded_reviewers holds no member of a group named in options.exclude,
\* however the member entered the candidate list; and the outputs of
\* fetch_default_reviewers and identify_reviewers_by_changed_files hold no
\* identifier of their excludes argument, also not one that a group expanded to.
C3_ExclusionAfterExpansion ==
    /\ call_fn = "filter_excluded_reviewers" =>
           \A g \in Elems(CallExclude) \cap DOMAIN CallGroups :
               Elems(CallGroups[g]) \cap Elems(call_out) = {}
    /\ call_fn \in {"fetch_default_reviewers", "identify_reviewers_by_changed_files"} =>
           Elems(call_excludes) \cap Elems(call_out) = {}

\* Group backend = [bob] is excluded and bob was a candidate in his own right:
\* the filter was called and returned the other candidate only.
C3_WitnessMemberRemoved ==
    /\ call_fn = "filter_excluded_reviewers"
    /\ Backend \in DOMAIN CallGroups
    /\ CallGroups[Backend] = <<Bob>>
    /\ CallExclude = <<Backend>>
    /\ call_reviewers = <<Bob, Alice>>
    /\ call_out = <<Alice>>

ReviewerSources ==
    {"fetch_default_reviewers", "identify_reviewers_by_changed_files",
     "identify_reviewers_by_author", "fetch_other_group_members"}

\* C8 as stated: for every configuration, no identifier returned by the four
\* reviewer sources is a key of reviewers.groups.
C8_NoGroupNameInOutput ==
    call_fn \in ReviewerSources => Elems(call_out) \cap DOMAIN CallGroups = {}

\* No member list of a group holds a group name.
GroupsAreFlat ==
    \A g \in DOMAIN CallGroups : Elems(CallGroups[g]) \cap DOMAIN CallGroups = {}

\* C8 amended: when the member lists of reviewers.groups hold individuals only
\* (no group name), no identifier returned by the four reviewer sources is a
\* key of reviewers.groups.
C8_NoGroupNameWhenFlat ==
    (call_fn \in ReviewerSources /\ GroupsAreFlat) =>
        Elems(call_out) \cap DOMAIN CallGroups = {}

\* The defaults name the group backend = [alice, bob] and the expansion was
\* returned in its place.
C8_WitnessExpanded ==
    /\ call_fn = "fetch_default_reviewers"
    /\ GroupsAreFlat
    /\ Backend \in DOMAIN CallGroups
    /\ CallGroups[Backend] = <<Alice, Bob>>
    /\ Has(call_config.reviewers, "defaults")
    /\ call_config.reviewers.defaults = <<Backend>>
    /\ call_excludes = <<>>
    /\ call_out = <<Alice, Bob>>

----------------------------------------------------------------------------
(* Claims about a run and about sampling *)

PickNumber == pick_options.number_of_reviewers

\* C4: on a pool without duplicates, randomly_pick_reviewers returns the pool
\* unchanged when number_of_reviewers is unset; exactly N distinct members of the
\* pool when N is at most the pool's size; and the whole pool when N is larger.
C4_Sampling ==
    pick_pc = "returned" =>
        IF ~Has(pick_options, "number_of_reviewers") THEN pick_out = pick_pool
        ELSE IF PickNumber <= Len(pick_pool)
        THEN /\ Len(pick_out) = PickNumber
             /\ Cardinality(Elems(pick_out)) = PickNumber
             /\ Elems(pick_out) \subseteq Elems(pick_pool)
        ELSE /\ Elems(pick_out) = Elems(pick_pool)
             /\ Len(pick_out) = Len(pick_pool)

\* Two of three candidates were asked for and two were returned, the first of
\* the pool not among them.
C4_WitnessTwoOfThree ==
    /\ pick_pc = "returned"
    /\ Has(pick_options, "number_of_reviewers")
    /\ PickNumber = 2
    /\ pick_pool = <<Alice, Bob, TeamInfra>>
    /\ Elems(pick_out) = {Bob, TeamInfra}

----------------------------------------------------------------------------
(* Claims about live reconciliation *)

\* the option is present, whatever its value
LivePresent == Has(live_options, "load_github_members")

LiveForcePick == Has(live_options, "force_pick") /\ live_options.force_pick

IsTeamReference(id) == Len(id) >= 5 /\ \A k \in 1..5 : id[k] = TeamPrefix[k]

\* the slugs of the teams the candidates refer to
ReferencedTeams ==
    {slug \in DOMAIN live_api : (TeamPrefix \o slug) \in Elems(live_reviewers)}

\* a team's roster: the members the API lists, nobody when the team is not
\* found, and no roster at all when the lookup fails otherwise
RosterOf(slug) ==
    IF live_api[slug].kind = "members" THEN Elems(live_api[slug].members) ELSE {}

ContributingTeams ==
    {slug \in ReferencedTeams : LiveForcePick \/ live_author \in RosterOf(slug)}

ExpectedTeamStageSet ==
    {id \in Elems(live_reviewers) : ~IsTeamReference(id)}
    \cup (UNION {RosterOf(slug) : slug \in ContributingTeams} \ {live_author})

NoDuplicates(arr) == \A i, j \in 1..Len(arr) : i # j => arr[i] # arr[j]

\* C5: with load_github_members present, fetch_author_belongs_to_github_team_members
\* returns exactly the duplicate-free union of the candidates that are no team
\* references and the members, other than the author, of the referenced teams'
\* rosters (with force_pick unset or false only of the rosters that hold the
\* author); no team reference remains in the result.
C5_ExactUnion ==
    (live_pc = "returned" /\ LivePresent) =>
        /\ Elems(live_result) = ExpectedTeamStageSet
        /\ NoDuplicates(live_result)
        /\ \A id \in Elems(live_result) : ~IsTeamReference(id)

\* some lookup of the run has failed with an error other than not-found
SomeLookupFailed ==
    \E i \in 1..Len(live_promises) :
        /\ live_promises[i].state = "resolved"
        /\ live_api[live_promises[i].team].kind = "error"

\* What C5 states holds on every run in which no lookup fails with an error
\* other than not-found.
C5_ExactUnionWithoutFailedLookup ==
    (live_pc = "returned" /\ LivePresent /\ ~SomeLookupFailed) =>
        /\ Elems(live_result) = ExpectedTeamStageSet
        /\ NoDuplicates(live_result)
        /\ \A id \in Elems(live_result) : ~IsTeamReference(id)

\* C6: a team lookup that fails with anything but not-found is fatal to the run:
\* fetch_author_belongs_to_github_team_members returns no reviewer list and
\* assign_reviewers is never called.
C6_FailedLookupIsFatal ==
    SomeLookupFailed =>
        /\ live_pc \in {"awaiting", "threw"}
        /\ live_calls.assign = 0

NumberOfTeamReferences ==
    Cardinality({i \in 1..Len(live_reviewers) : IsTeamReference(live_reviewers[i])})

\* C7: live reconciliation goes by the presence of options.load_github_members.
\* Absent: both stages return their input unchanged and no list_team_members or
\* list_requested_reviewers call is made.  Present with any value: one lookup
\* per team reference and one list_requested_reviewers call are made, and the
\* output of filter_already_requested_reviewers holds nobody that
\* list_requested_reviewers returned.
C7_PresenceNotTruthiness ==
    /\ ~LivePresent =>
           /\ live_calls.team_members = 0
           /\ live_calls.requested = 0
           /\ live_pc \in {"returned", "filtered", "assigned"} =>
                  live_result = live_reviewers
           /\ live_pc \in {"start", "returned", "filtered", "assigned"}
    /\ LivePresent =>
           /\ live_pc # "start" => live_calls.team_members = NumberOfTeamReferences
           /\ live_pc \in {"filtered", "assigned", "assign_threw"} =>
                  /\ live_calls.requested = 1
                  /\ Elems(live_result) \cap Elems(live_requested) = {}

\* load_github_members is present and false; the lookup of the one team
\* reference was made, and alice, a candidate already requested, was dropped.
C7_WitnessPresentFalse ==
    /\ LivePresent
    /\ ~live_options.load_github_members
    /\ live_pc = "filtered"
    /\ live_reviewers = <<TeamInfra, Alice>>
    /\ live_calls.team_members = 1
    /\ live_requested = <<Alice>>
    /\ ~ArrIncludes(live_result, Alice)

\* what each lookup resolves with, by its place among the team references
ResolvedByPlace ==
    [i \in 1..Len(live_promises) |-> list_team_members(live_api[live_promises[i].team])]

\* C9: the team lookups are a fan-out/fan-in.  Every lookup is issued before
\* any completes; the stage computes its result only after all have completed,
\* a not-found one with an empty roster; and the reviewer set returned is fixed
\* by the stage's inputs and the teams' rosters, whatever the order of completion.
C9_FanOutFanIn ==
    /\ (\E i \in 1..Len(live_promises) : live_promises[i].state = "resolved") =>
           \A j \in 1..Len(live_promises) : live_promises[j].state # "unissued"
    /\ (LivePresent /\ live_pc # "start") =>
           /\ Len(live_promises) = NumberOfTeamReferences
           /\ live_calls.team_members = NumberOfTeamReferences
    /\ (LivePresent /\ live_pc \in {"returned", "threw"}) =>
           \A i \in 1..Len(live_promises) : live_promises[i].state = "resolved"
    /\ \A i \in 1..Len(live_promises) :
           (live_promises[i].state = "resolved"
            /\ live_api[live_promises[i].team].kind = "not_found") =>
               live_promises[i].value = <<>>
    /\ (LivePresent /\ live_pc = "returned") =>
           Elems(live_result) =
               Elems(team_stage_result(live_reviewers, ResolvedByPlace, live_author,
                                       live_options).value)

\* Two lookups, the second completing first and the first not found; the stage
\* returned the second team's member.
C9_WitnessReverseOrder ==
    /\ live_pc = "returned"
    /\ live_reviewers = <<TeamInfra, TeamOps>>
    /\ live_order = <<2, 1>>
    /\ live_api[InfraSlug].kind = "not_found"
    /\ live_author = Alice
    /\ LiveForcePick
    /\ live_result = <<Bob>>

----------------------------------------------------------------------------
(* Claims about the memoized values *)

\* C10 as stated: between two consecutive clear_cache calls each memoized value
\* is read from its source at most once, whatever the source returns.
C10_AtMostOneRead ==
    \A k \in CacheKeys : reads[k] <= 1

\* the source of k yields a truthy value: the context always, the token and the
\* config path when not empty, the client when the token is not empty
SourceTruthy(k) ==
    IF k = "octokit" THEN source.token # "" ELSE source[k] # ""

\* C10 amended: between two consecutive clear_cache calls a memoized value whose
\* source yields a truthy value is read from it at most once; an empty token or
\* config path is not kept and is read on every access, as the client is built
\* anew on every access while the token is empty; and the first access after a
\* clear_cache reads the source again.
C10_AtMostOneTruthyRead ==
    \A k \in CacheKeys :
        /\ SourceTruthy(k) => reads[k] <= 1
        /\ ~SourceTruthy(k) => reads[k] = accesses[k]
        /\ accesses[k] >= 1 => reads[k] >= 1

\* After a clear_cache, the token and the client were accessed more than once
\* and read once.
C10_WitnessReadOnceAfterClear ==
    /\ cache_clears >= 1
    /\ source.token = "token"
    /\ accesses.octokit >= 2
    /\ reads.octokit = 1
    /\ reads.token = 1
    /\ accesses.context >= 2
    /\ reads.context = 1

====
